---- MODULE Spec2Model ----
(***************************************************************************)
(* Model of the agent layer of hello-world-strand-agents:                  *)
(*   src/agents/ollama_agent.py        OllamaStrandAgent                   *)
(*   src/agents/specialized_agents.py  the five presets and create_agent   *)
(*   src/config/ollama_config.py       OllamaConfig                        *)
(*                                                                         *)
(* Text is a sequence of tokens (a token is a short string), so that       *)
(* concatenation, prefixes and the empty string are what they are in the   *)
(* program.  An Optional value is a set: {} is None, {v} holds v.          *)
(***************************************************************************)
EXTENDS Integers, Sequences, FiniteSets, TLC

\* ------------------------------------------------------------------ bounds
NumAgents == 2
MaxCalls == 2
MaxTools == 2
MaxChunks == 2
MaxModels == 2
MaxJson == 5
MaxPhrases == 3

\* ------------------------------------------------------- python primitives
None == {}
Some(v) == {v}
Val(o) == CHOOSE v \in o : TRUE

\* Truth value of an Optional[str] / Optional[list]: None and the empty
\* string / list are false.
Truthy(o) == o # None /\ Val(o) # <<>>

\* Python's `x or d`.
OrElse(o, d) == IF Truthy(o) THEN Val(o) ELSE d

RECURSIVE Flatten(_)
Flatten(ss) == IF ss = <<>> THEN <<>> ELSE Head(ss) \o Flatten(Tail(ss))

\* f"Error: {str(e)}"
ErrorPrefix == "Error: "
ErrorText(desc) == <<ErrorPrefix>> \o desc

\* str(KeyError(key)) is the repr of the key.
KeyErrorText(key) == <<"'" \o key \o "'">>

\* ---------------------------------------------------------- OllamaConfig
base_url == <<"http://localhost:11434">>
default_model == <<"llama3.2">>
timeout == 30
\* temperature 0.7, in tenths
temperature == 7
max_tokens == 2048

get_model_config(model_name) ==
    [base_url |-> base_url,
     model |-> OrElse(model_name, default_model),
     timeout |-> timeout,
     stream |-> FALSE,
     temperature |-> temperature,
     max_tokens |-> max_tokens]

\* ------------------------------------------------------------------ state
VARIABLES
    heap,       \* the list objects of the program: heap[i] is the content of list i
    agent,      \* the constructed agents, by identity
    calls,      \* the chat / async_chat / stream_chat invocations, in call order
    requests,   \* the requests the model server has received, by the call they came from
    served,     \* what the server answered to each call's request
    created,    \* outcome of the last create_agent call
    listed,     \* outcome of the last list_available_models call
    info,       \* outcome of the last get_model_info call
    toolcall    \* the last call of a tool function: its arguments and what it returned

vars == <<heap, agent, calls, requests, served, created, listed, info, toolcall>>

AgentIds == 1 .. NumAgents
CallIds == 1 .. MaxCalls

\* the tools a caller can hand to an agent
calculator == "calculator"
ToolSet == {calculator, "weather_tool"}

\* ------------------------------------------------------ OllamaStrandAgent
\* strands.Agent(name=..., tools=...): the wrapped agent keeps the name and
\* the list object it was given.
Agent(name, tools) == [name |-> name, tools |-> tools]

NextAgent == Cardinality(DOMAIN agent) + 1

\* OllamaStrandAgent.__init__: `tools or []` keeps the caller's list object
\* when it is non-empty and allocates a new empty list otherwise.  Evaluated
\* over the heap h in which the arguments live.
__init__(name, model, tools, system_prompt, h) ==
    LET ref == IF tools # None /\ h[Val(tools)] # <<>> THEN Val(tools) ELSE Len(h) + 1
        self_model == OrElse(model, default_model)
    IN  [heap |-> IF ref > Len(h) THEN Append(h, <<>>) ELSE h,
         self |-> [name |-> name,
                   model |-> self_model,
                   tools |-> ref,
                   system_prompt |-> system_prompt,
                   config |-> get_model_config(Some(self_model)),
                   strand_agent |-> Agent(name, ref)]]

\* the new instance takes identity a
Construct(a, name, model, tools, system_prompt, h) ==
    /\ heap' = __init__(name, model, tools, system_prompt, h).heap
    /\ agent' = agent @@ (a :> __init__(name, model, tools, system_prompt, h).self)

\* A caller constructs an OllamaStrandAgent directly.
NewAgent(model, tools, system_prompt) ==
    /\ NextAgent \in AgentIds
    /\ Construct(NextAgent, <<"TestAgent">>, model, tools, system_prompt, heap)
    /\ UNCHANGED <<calls, requests, served, created, listed, info, toolcall>>

\* add_tool as it would be with insert(0, tool)
add_tool_prepend(a, tool) ==
    /\ a \in DOMAIN agent
    /\ Len(heap[agent[a].tools]) < MaxTools
    /\ heap' = [heap EXCEPT ![agent[a].tools] = <<tool>> \o @]
    /\ agent' = [agent EXCEPT ![a].strand_agent = Agent(agent[a].name, agent[a].tools)]
    /\ UNCHANGED <<calls, requests, served, created, listed, info, toolcall>>

\* OllamaStrandAgent.add_tool: append in place, then rebuild the wrapped agent
\* from the same list object.
add_tool(a, tool) ==
    /\ a \in DOMAIN agent
    /\ Len(heap[agent[a].tools]) < MaxTools
    /\ heap' = [heap EXCEPT ![agent[a].tools] = Append(@, tool)]
    /\ agent' = [agent EXCEPT ![a].strand_agent = Agent(agent[a].name, agent[a].tools)]
    /\ UNCHANGED <<calls, requests, served, created, listed, info, toolcall>>

\* ------------------------------------------------------ specialized agents
\* Each preset class: its name, the default of its `model` parameter, the
\* tools literal it passes on and its system prompt (one token per prompt).
MathAgent == [name |-> <<"MathAgent">>, model |-> <<"llama3.2">>,
              tools |-> <<calculator>>, system_prompt |-> <<"math-prompt">>]
ResearchAgent == [name |-> <<"ResearchAgent">>, model |-> <<"llama3.2">>,
                  tools |-> <<>>, system_prompt |-> <<"research-prompt">>]
CodeAgent == [name |-> <<"CodeAgent">>, model |-> <<"codellama">>,
              tools |-> <<>>, system_prompt |-> <<"code-prompt">>]
AnalysisAgent == [name |-> <<"AnalysisAgent">>, model |-> <<"llama3.2">>,
                  tools |-> <<calculator>>, system_prompt |-> <<"analysis-prompt">>]
CreativeAgent == [name |-> <<"CreativeAgent">>, model |-> <<"llama3.2">>,
                  tools |-> <<>>, system_prompt |-> <<"creative-prompt">>]

\* str.lower() on the characters used here; a string is a sequence of
\* characters.
Upper == <<"A","B","C","D","E","F","G","H","I","J","K","L","M",
           "N","O","P","Q","R","S","T","U","V","W","X","Y","Z">>
Lower == <<"a","b","c","d","e","f","g","h","i","j","k","l","m",
           "n","o","p","q","r","s","t","u","v","w","x","y","z">>
lower_char(c) ==
    IF \E i \in 1 .. 26 : Upper[i] = c
    THEN Lower[CHOOSE i \in 1 .. 26 : Upper[i] = c]
    ELSE c
lower(s) == [i \in 1 .. Len(s) |-> lower_char(s[i])]

\* the `agents` dict of create_agent
agents ==
    (<<"m","a","t","h">> :> MathAgent)
    @@ (<<"r","e","s","e","a","r","c","h">> :> ResearchAgent)
    @@ (<<"c","o","d","e">> :> CodeAgent)
    @@ (<<"a","n","a","l","y","s","i","s">> :> AnalysisAgent)
    @@ (<<"c","r","e","a","t","i","v","e">> :> CreativeAgent)

ValueError == <<"ValueError">>

\* the key as it would be without .lower()
agent_key_exact(agent_type) == agent_type

\* the key create_agent looks up: `agent_type.lower()`
agent_key(agent_type) == lower(agent_type)

\* create_agent(agent_type, model)
create_agent_body(agent_type, model) ==
    IF agent_key(agent_type) \notin DOMAIN agents
    THEN /\ created' = Some([agent_type |-> agent_type, model |-> model,
                             raised |-> Some(ValueError), agent |-> None])
         /\ UNCHANGED <<heap, agent>>
    ELSE LET agent_class == agents[agent_key(agent_type)]
             \* `if model:` picks the caller's model, else the class default
             m == IF Truthy(model) THEN Val(model) ELSE agent_class.model
             \* the tools literal of the preset is a new list object
             h == Append(heap, agent_class.tools)
         IN  /\ NextAgent \in AgentIds
             /\ Construct(NextAgent, agent_class.name, Some(m), Some(Len(h)),
                          Some(agent_class.system_prompt), h)
             /\ created' = Some([agent_type |-> agent_type, model |-> model,
                                 raised |-> None, agent |-> Some(NextAgent)])

create_agent(agent_type, model) ==
    /\ create_agent_body(agent_type, model)
    /\ UNCHANGED <<calls, requests, served, listed, info, toolcall>>

\* ------------------------------------------------------------ model server
\* The server is a stub that answers a chat request with the contents of the
\* request's messages, in order: the answer is a function of the request, and
\* different requests get different answers.
Reply(req) == Flatten([i \in 1 .. Len(req.messages) |-> req.messages[i].content])

\* a well-formed chat response / stream chunk carrying `text`
Response(text) == [message |-> [role |-> "assistant", content |-> text]]

\* responses that lack the message field, or the content field of the message
Malformed == {[error |-> <<"model not found">>], [message |-> [role |-> "assistant"]]}

\* str(e) of the faults the transport raises
Faults == {<<"ConnectionError">>, <<"ReadTimeout">>}

\* seconds the server takes to answer: within and beyond the configured timeout
Latencies == {1, timeout + 1}

\* A server's range of behaviour: the faults it causes, the malformed
\* responses it sends, how long it takes, and whether it streams an answer
\* in one fragment only.
FullServer == [faults |-> Faults, malformed |-> Malformed,
               latencies |-> Latencies, whole |-> FALSE]
\* a server fixed to one fault, that streams an answer in any split
StreamServer == [faults |-> {<<"ConnectionError">>}, malformed |-> {},
                 latencies |-> {1}, whole |-> FALSE]
\* a server fixed to one fault, that streams each answer whole
PlainServer == [faults |-> {<<"ConnectionError">>}, malformed |-> {},
                latencies |-> {1}, whole |-> TRUE]
\* a server that never fails, and streams each answer whole
QuietServer == [faults |-> {}, malformed |-> {}, latencies |-> {1}, whole |-> TRUE]

\* What one non-streaming exchange can come to: the client raises, or the
\* server's response arrives after `latency` seconds.
Outcomes(srv, req) ==
    {[raise |-> None, response |-> Some(Response(Reply(req))), latency |-> l] : l \in srv.latencies}
    \cup {[raise |-> None, response |-> Some(r), latency |-> 1] : r \in srv.malformed}
    \cup {[raise |-> Some(f), response |-> None, latency |-> 1] : f \in srv.faults}

\* ------------------------------------------------------------ chat methods
\* the messages as they would be with the two appends swapped
build_messages_user_first(system_prompt, message) ==
    <<[role |-> "user", content |-> message]>>
    \o (IF Truthy(system_prompt)
        THEN <<[role |-> "system", content |-> Val(system_prompt)]>>
        ELSE <<>>)

\* the `messages` list each of chat, async_chat and stream_chat builds
build_messages(system_prompt, message) ==
    (IF Truthy(system_prompt)
     THEN <<[role |-> "system", content |-> Val(system_prompt)]>>
     ELSE <<>>)
    \o <<[role |-> "user", content |-> message]>>

\* the request call c waits on
RequestOf(c) == requests[c][Len(requests[c])]

\* keyword arguments of a call: the keys a caller passes on to the server
NoKwargs == [options |-> None, tools |-> None]

\* the call ollama.chat(model=self.model, messages=messages, [stream=True,] **kwargs)
ollama_chat(self, messages, stream, kwargs) ==
    [model |-> self.model, messages |-> messages,
     stream |-> stream, kwargs |-> kwargs]

\* response['message']['content'], or the KeyError of the failing subscript
content(response) ==
    IF "message" \notin DOMAIN response
    THEN [value |-> None, raise |-> Some(KeyErrorText("message"))]
    ELSE IF "content" \notin DOMAIN response.message
         THEN [value |-> None, raise |-> Some(KeyErrorText("content"))]
         ELSE [value |-> Some(response.message.content), raise |-> None]

\* the handler as it would be with a bare `raise`
except_propagates(e) == [result |-> None, raised |-> Some(e)]

\* `except Exception as e: return f"Error: {str(e)}"`
except_Exception(e) == [result |-> Some(ErrorText(e)), raised |-> None]

\* the rest of chat / async_chat once the exchange is over: what the call
\* returns and what it lets escape to the caller
chat_return(out) ==
    IF out.raise # None
    THEN except_Exception(Val(out.raise))
    ELSE LET v == content(Val(out.response))
         IN  IF v.raise # None
             THEN except_Exception(Val(v.raise))
             ELSE [result |-> v.value, raised |-> None]

\* the frame of a call whose body has not started
NewCall(kind, a, message, kwargs) ==
    [kind |-> kind, agent |-> a, message |-> message, kwargs |-> kwargs,
     pc |-> "created", messages |-> <<>>, result |-> None, raised |-> None,
     yielded |-> <<>>]

\* the body as it would be with one `messages` list shared by the calls
Issue_shared_list(c, rec) ==
    LET self == agent[rec.agent]
        messages == (IF c > 1 THEN calls[c - 1].messages ELSE <<>>)
                    \o build_messages(self.system_prompt, rec.message)
        req == ollama_chat(self, messages, rec.kind = "stream_chat", rec.kwargs)
    IN  /\ requests' = IF c \in DOMAIN requests
                       THEN [requests EXCEPT ![c] = Append(@, req)]
                       ELSE requests @@ (c :> <<req>>)
        /\ calls' = IF c \in DOMAIN calls
                    THEN [calls EXCEPT ![c].messages = messages, ![c].pc = "waiting"]
                    ELSE Append(calls, [rec EXCEPT !.messages = messages, !.pc = "waiting"])

\* the body of a call up to the point where it waits for the server
Issue(c, rec) ==
    LET self == agent[rec.agent]
        messages == build_messages(self.system_prompt, rec.message)
        req == ollama_chat(self, messages, rec.kind = "stream_chat", rec.kwargs)
    IN  /\ requests' = IF c \in DOMAIN requests
                       THEN [requests EXCEPT ![c] = Append(@, req)]
                       ELSE requests @@ (c :> <<req>>)
        /\ calls' = IF c \in DOMAIN calls
                    THEN [calls EXCEPT ![c].messages = messages, ![c].pc = "waiting"]
                    ELSE Append(calls, [rec EXCEPT !.messages = messages, !.pc = "waiting"])

\* OllamaStrandAgent.chat: the caller's thread runs the body at once
chat(a, message, kwargs) ==
    /\ a \in DOMAIN agent
    /\ Len(calls) < MaxCalls
    /\ Issue(Len(calls) + 1, NewCall("chat", a, message, kwargs))
    /\ UNCHANGED <<heap, agent, served, created, listed, info, toolcall>>

\* OllamaStrandAgent.async_chat: the call makes a coroutine, whose body has
\* not started
async_chat(a, message, kwargs) ==
    /\ a \in DOMAIN agent
    /\ Len(calls) < MaxCalls
    /\ calls' = Append(calls, NewCall("async_chat", a, message, kwargs))
    /\ UNCHANGED <<heap, agent, requests, served, created, listed, info, toolcall>>

\* OllamaStrandAgent.stream_chat: the call makes a generator, whose body has
\* not started
stream_chat(a, message, kwargs) ==
    /\ a \in DOMAIN agent
    /\ Len(calls) < MaxCalls
    /\ calls' = Append(calls, NewCall("stream_chat", a, message, kwargs))
    /\ UNCHANGED <<heap, agent, requests, served, created, listed, info, toolcall>>

\* the resumed body as it would be if it sent the user message alone
Resume_user_only(c) ==
    /\ c \in DOMAIN calls
    /\ calls[c].pc = "created"
    /\ LET messages == build_messages(None, calls[c].message)
           req == ollama_chat(agent[calls[c].agent], messages,
                              calls[c].kind = "stream_chat", calls[c].kwargs)
       IN  /\ requests' = requests @@ (c :> <<req>>)
           /\ calls' = [calls EXCEPT ![c].messages = messages, ![c].pc = "waiting"]
    /\ UNCHANGED <<heap, agent, served, created, listed, info, toolcall>>

\* the event loop runs the coroutine up to its await, or the consumer's first
\* next() starts the generator
Resume(c) ==
    /\ c \in DOMAIN calls
    /\ calls[c].pc = "created"
    /\ Issue(c, calls[c])
    /\ UNCHANGED <<heap, agent, served, created, listed, info, toolcall>>

\* the exchange of a chat or async_chat call ends and the call returns
Return(srv, c) ==
    /\ c \in DOMAIN calls
    /\ calls[c].pc = "waiting"
    /\ calls[c].kind \in {"chat", "async_chat"}
    /\ \E out \in Outcomes(srv, RequestOf(c)) :
          /\ served' = served @@ (c :> out)
          /\ calls' = [calls EXCEPT ![c].pc = "done",
                                    ![c].result = chat_return(out).result,
                                    ![c].raised = chat_return(out).raised]
    /\ UNCHANGED <<heap, agent, requests, created, listed, info, toolcall>>

\* ---------------------------------------------------------------- streaming
\* the text of the fragments the server has delivered to call c so far
Delivered(c) ==
    IF c \in DOMAIN served
    THEN Flatten([i \in 1 .. Len(served[c]) |-> Val(served[c][i].chunk).message.content])
    ELSE <<>>

NumDelivered(c) == IF c \in DOMAIN served THEN Len(served[c]) ELSE 0

\* What the stream of call c can do next: deliver the next fragment of the
\* answer (of any length, the empty one included), deliver a chunk that is not
\* a chat chunk, break, or signal completion once the answer is out.
StreamEvents(srv, c) ==
    LET reply == Reply(RequestOf(c))
        n == Len(Delivered(c))
    IN  {[kind |-> "chunk", chunk |-> Some(Response(SubSeq(reply, n + 1, m))), fault |-> None] :
            m \in {k \in n .. Len(reply) :
                      /\ NumDelivered(c) < MaxChunks
                      /\ srv.whole => (n < k /\ k = Len(reply))}}
        \cup {[kind |-> "chunk", chunk |-> Some(r), fault |-> None] : r \in srv.malformed}
        \cup {[kind |-> "raise", chunk |-> None, fault |-> Some(f)] : f \in srv.faults}
        \cup {[kind |-> "stop", chunk |-> None, fault |-> None] : k \in {n} \cap {Len(reply)}}

\* the loop as it would be with `if content:` before the yield
stream_iteration_drop_empty(ev) ==
    IF ev.kind = "stop"
    THEN [yield |-> None, pc |-> "done", raised |-> None]
    ELSE IF ev.kind = "raise"
         THEN [yield |-> Some(ErrorText(Val(ev.fault))), pc |-> "errored", raised |-> None]
         ELSE LET v == content(Val(ev.chunk))
              IN  IF v.raise # None
                  THEN [yield |-> Some(ErrorText(Val(v.raise))), pc |-> "errored", raised |-> None]
                  ELSE IF Val(v.value) = <<>>
                       THEN [yield |-> None, pc |-> "waiting", raised |-> None]
                       ELSE [yield |-> v.value, pc |-> "waiting", raised |-> None]

\* the loop as it would be without the except around the iterator
stream_iteration_reraise(ev) ==
    IF ev.kind = "stop"
    THEN [yield |-> None, pc |-> "done", raised |-> None]
    ELSE IF ev.kind = "raise"
         THEN [yield |-> None, pc |-> "done", raised |-> ev.fault]
         ELSE LET v == content(Val(ev.chunk))
              IN  IF v.raise # None
                  THEN [yield |-> Some(ErrorText(Val(v.raise))), pc |-> "errored", raised |-> None]
                  ELSE [yield |-> v.value, pc |-> "waiting", raised |-> None]

\* One turn of `for chunk in ollama.chat(..., stream=True): yield ...` inside
\* the try: the fragment the generator yields, if any, where it is left, and
\* what it lets escape to the consumer.
stream_iteration(ev) ==
    IF ev.kind = "stop"
    THEN [yield |-> None, pc |-> "done", raised |-> None]
    ELSE IF ev.kind = "raise"
         THEN [yield |-> Some(ErrorText(Val(ev.fault))), pc |-> "errored", raised |-> None]
         ELSE LET v == content(Val(ev.chunk))
              IN  IF v.raise # None
                  THEN [yield |-> Some(ErrorText(Val(v.raise))), pc |-> "errored", raised |-> None]
                  ELSE [yield |-> v.value, pc |-> "waiting", raised |-> None]

\* the consumer's next() on a generator that waits for the server
StreamNext(srv, c) ==
    /\ c \in DOMAIN calls
    /\ calls[c].pc = "waiting"
    /\ calls[c].kind = "stream_chat"
    /\ \E ev \in StreamEvents(srv, c) :
          LET it == stream_iteration(ev)
          IN  /\ served' = IF c \in DOMAIN served
                           THEN [served EXCEPT ![c] = Append(@, ev)]
                           ELSE served @@ (c :> <<ev>>)
              /\ calls' = [calls EXCEPT
                               ![c].pc = it.pc,
                               ![c].yielded = IF it.yield = None THEN @
                                              ELSE Append(@, Val(it.yield)),
                               ![c].raised = it.raised]
    /\ UNCHANGED <<heap, agent, requests, created, listed, info, toolcall>>

\* the consumer's next() after the error fragment: the except block is over
\* and the generator returns
StreamClose(c) ==
    /\ c \in DOMAIN calls
    /\ calls[c].pc = "errored"
    /\ calls' = [calls EXCEPT ![c].pc = "done"]
    /\ UNCHANGED <<heap, agent, requests, served, created, listed, info, toolcall>>

\* ----------------------------------------------------------- model queries
ModelNames == {<<"llama3.2">>, <<"codellama">>}

\* inventory entries: with a name, and without one
Entries == {[name |-> n] : n \in ModelNames} \cup {[model |-> <<"phi3">>]}

\* what ollama.list() can come to
Inventories ==
    {[raise |-> None, response |-> Some([models |-> ms])] :
        ms \in UNION {[1 .. n -> Entries] : n \in 0 .. MaxModels}}
    \cup {[raise |-> None, response |-> Some([error |-> <<"bad inventory">>])]}
    \cup {[raise |-> Some(f), response |-> None] : f \in Faults}

\* the body as it would be with entries without a name skipped
list_names_skip_unnamed(out) ==
    IF out.raise # None \/ "models" \notin DOMAIN Val(out.response)
    THEN [result |-> <<>>, raised |-> None]
    ELSE LET models == Val(out.response).models
             RECURSIVE names(_)
             names(i) == IF i > Len(models) THEN <<>>
                         ELSE (IF "name" \in DOMAIN models[i] THEN <<models[i].name>> ELSE <<>>)
                              \o names(i + 1)
         IN  [result |-> names(1), raised |-> None]

\* the body of list_available_models: the names in the server's order, or []
\* when anything in the try raises
list_names(out) ==
    IF out.raise # None
    THEN [result |-> <<>>, raised |-> None]
    ELSE LET models == Val(out.response)
         IN  IF "models" \notin DOMAIN models
             THEN [result |-> <<>>, raised |-> None]
             ELSE IF \E i \in 1 .. Len(models.models) : "name" \notin DOMAIN models.models[i]
                  THEN [result |-> <<>>, raised |-> None]
                  ELSE [result |-> [i \in 1 .. Len(models.models) |-> models.models[i].name],
                        raised |-> None]

\* OllamaStrandAgent.list_available_models
list_available_models(a) ==
    /\ a \in DOMAIN agent
    /\ \E out \in Inventories :
          listed' = Some([agent |-> a, outcome |-> out,
                          result |-> list_names(out).result,
                          raised |-> list_names(out).raised])
    /\ UNCHANGED <<heap, agent, calls, requests, served, created, info, toolcall>>

\* what ollama.show(model) can come to: the metadata of the model, or a fault
Metadata(model) ==
    {[details |-> [family |-> model], modelfile |-> <<"FROM">> \o model],
     [details |-> [family |-> model], error |-> <<>>]}

Shows(model) ==
    {[raise |-> None, response |-> Some(m)] : m \in Metadata(model)}
    \cup {[raise |-> Some(f), response |-> None] : f \in Faults \cup {<<"model not found">>}}

\* the body as it would be with the model added to the error mapping
model_info_merge(out) ==
    IF out.raise # None
    THEN [result |-> [error |-> Val(out.raise), model |-> <<>>], raised |-> None]
    ELSE [result |-> Val(out.response), raised |-> None]

\* the body of get_model_info
model_info(out) ==
    IF out.raise # None
    THEN [result |-> [error |-> Val(out.raise)], raised |-> None]
    ELSE [result |-> Val(out.response), raised |-> None]

\* OllamaStrandAgent.get_model_info
get_model_info(a) ==
    /\ a \in DOMAIN agent
    /\ \E out \in Shows(agent[a].model) :
          info' = Some([agent |-> a, outcome |-> out,
                        result |-> model_info(out).result,
                        raised |-> model_info(out).raised])
    /\ UNCHANGED <<heap, agent, calls, requests, served, created, listed, toolcall>>

\* ------------------------------------------------------------ custom tools
\* A number is an exact fraction n / d in lowest terms, d > 0.  What the
\* program computes in binary floating point differs from the exact value
\* by far less than the sixth decimal; where that can show, at a tie of the
\* rounding, both neighbours are outcomes.
RECURSIVE gcd(_, _)
gcd(a, b) == IF b = 0 THEN a ELSE gcd(b, a % b)
Abs(x) == IF x < 0 THEN 0 - x ELSE x
Frac(n, d) == LET g == gcd(Abs(n), d) IN [n |-> n \div g, d |-> d \div g]

\* a * b, a / b, a + b and a - b on fractions
Mul(a, b) ==
    LET g1 == gcd(Abs(a.n), b.d)
        g2 == gcd(Abs(b.n), a.d)
    IN  [n |-> (a.n \div g1) * (b.n \div g2), d |-> (a.d \div g2) * (b.d \div g1)]
Div(a, b) == Mul(a, IF b.n < 0 THEN [n |-> 0 - b.d, d |-> 0 - b.n] ELSE [n |-> b.d, d |-> b.n])
Add(a, b) == Frac(a.n * b.d + b.n * a.d, a.d * b.d)
Sub(a, b) == Add(a, [n |-> 0 - b.n, d |-> b.d])

\* round(x, ndigits): the decimals with ndigits places next to x, as sign,
\* whole part and the digits after the point taken as a number; one of
\* them, or the two neighbours when x lies halfway
RECURSIVE Pow10(_)
Pow10(k) == IF k = 0 THEN 1 ELSE 10 * Pow10(k - 1)
round(x, ndigits) ==
    LET a == Abs(x.n)
        RECURSIVE places(_, _, _)
        places(m, r, k) == IF k = 0 THEN <<m, r>>
                           ELSE places(m * 10 + (r * 10) \div x.d, (r * 10) % x.d, k - 1)
        p == places(0, a % x.d, ndigits)
        down == [whole |-> a \div x.d, places |-> p[1]]
        up == IF p[1] + 1 = Pow10(ndigits)
              THEN [whole |-> a \div x.d + 1, places |-> 0]
              ELSE [whole |-> a \div x.d, places |-> p[1] + 1]
        near == IF 2 * p[2] < x.d THEN {down}
                ELSE IF 2 * p[2] > x.d THEN {up}
                ELSE {down, up}
    IN  {[neg |-> x.n < 0 /\ (v.whole # 0 \/ v.places # 0),
          whole |-> v.whole, places |-> v.places] : v \in near}

\* unit names, as sequences of characters
meter == <<"m","e","t","e","r">>
centimeter == <<"c","e","n","t","i","m","e","t","e","r">>
inch == <<"i","n","c","h">>
gram == <<"g","r","a","m">>
pound == <<"p","o","u","n","d">>
celsius == <<"c","e","l","s","i","u","s">>
fahrenheit == <<"f","a","h","r","e","n","h","e","i","t">>
kelvin == <<"k","e","l","v","i","n">>

\* the `conversions` dict of unit_converter_tool: the factor of each unit to
\* the base unit of its type
conversions ==
    [length |->
        (meter :> Frac(1, 1))
        @@ (<<"k","i","l","o","m","e","t","e","r">> :> Frac(1000, 1))
        @@ (centimeter :> Frac(1, 100))
        @@ (<<"m","i","l","l","i","m","e","t","e","r">> :> Frac(1, 1000))
        @@ (inch :> Frac(254, 10000))
        @@ (<<"f","o","o","t">> :> Frac(3048, 10000))
        @@ (<<"y","a","r","d">> :> Frac(9144, 10000))
        @@ (<<"m","i","l","e">> :> Frac(160934, 100)),
     weight |->
        (<<"k","i","l","o","g","r","a","m">> :> Frac(1, 1))
        @@ (gram :> Frac(1, 1000))
        @@ (pound :> Frac(453592, 1000000))
        @@ (<<"o","u","n","c","e">> :> Frac(283495, 10000000))
        @@ (<<"t","o","n">> :> Frac(1000, 1)),
     temperature |-> <<>>]

\* convert_temperature as it would be without the Fahrenheit offset
convert_temperature_no_offset(value, from_unit, to_unit) ==
    LET celsius_value ==
            IF lower(from_unit) = fahrenheit
            THEN Div(Mul(value, Frac(5, 1)), Frac(9, 1))
            ELSE IF lower(from_unit) = kelvin
                 THEN Sub(value, Frac(27315, 100))
                 ELSE value
    IN  IF lower(to_unit) = fahrenheit
        THEN Div(Mul(celsius_value, Frac(9, 1)), Frac(5, 1))
        ELSE IF lower(to_unit) = kelvin
             THEN Add(celsius_value, Frac(27315, 100))
             ELSE celsius_value

\* convert_temperature: to Celsius first, then to the target; a unit that is
\* neither fahrenheit nor kelvin, in any case, is taken for Celsius
convert_temperature(value, from_unit, to_unit) ==
    LET celsius_value ==
            IF lower(from_unit) = fahrenheit
            THEN Div(Mul(Sub(value, Frac(32, 1)), Frac(5, 1)), Frac(9, 1))
            ELSE IF lower(from_unit) = kelvin
                 THEN Sub(value, Frac(27315, 100))
                 ELSE value
    IN  IF lower(to_unit) = fahrenheit
        THEN Add(Div(Mul(celsius_value, Frac(9, 1)), Frac(5, 1)), Frac(32, 1))
        ELSE IF lower(to_unit) = kelvin
             THEN Add(celsius_value, Frac(27315, 100))
             ELSE celsius_value

\* the mapping unit_converter_tool returns on success
converted(value, from_unit, to_unit, unit_type, result) ==
    {[original_value |-> value,
      original_unit |-> from_unit,
      converted_value |-> r,
      converted_unit |-> to_unit,
      unit_type |-> unit_type] : r \in round(result, 6)}

\* the body of unit_converter_tool: the mappings it can return
unit_converter(value, from_unit, to_unit, unit_type) ==
    IF unit_type = "temperature"
    THEN converted(value, from_unit, to_unit, unit_type,
                   convert_temperature(value, from_unit, to_unit))
    ELSE IF unit_type \notin DOMAIN conversions
         THEN {[error |-> <<"Unknown unit type: ", unit_type>>]}
         ELSE LET unit_map == conversions[unit_type]
              IN  IF from_unit \notin DOMAIN unit_map \/ to_unit \notin DOMAIN unit_map
                  THEN {[error |-> <<"Unknown unit for ", unit_type>>]}
                  ELSE LET base_value == Mul(value, unit_map[from_unit])
                       IN  converted(value, from_unit, to_unit, unit_type,
                                     Div(base_value, unit_map[to_unit]))

\* a call of `tool` is under way: the arguments are bound, nothing is returned
Called(tool) ==
    /\ toolcall # None
    /\ Val(toolcall).tool = tool
    /\ Val(toolcall).returned = None

\* the call returns r; a tool function touches no agent
ToolReturn(r) ==
    /\ toolcall' = Some([Val(toolcall) EXCEPT !.returned = Some(r)])
    /\ UNCHANGED <<heap, agent, calls, requests, served, created, listed, info>>

\* unit_converter_tool(value, from_unit, to_unit, unit_type)
unit_converter_tool ==
    /\ Called("unit_converter_tool")
    /\ LET args == Val(toolcall).args
       IN  \E r \in unit_converter(args[1], args[2], args[3], args[4]) : ToolReturn(r)

\* the file system file_reader_tool looks at: regular text files, a
\* directory and a file that is not UTF-8; a text is a sequence of characters
Files ==
    ("notes.txt" :> [kind |-> "file", content |-> <<"h", "i", "\n", "y", "o", "\n">>])
    @@ ("empty.txt" :> [kind |-> "file", content |-> <<>>])
    @@ ("data" :> [kind |-> "dir", content |-> <<>>])
    @@ ("photo.bin" :> [kind |-> "binary", content |-> <<>>])

\* the body of file_reader_tool
file_reader(file_path) ==
    IF file_path \notin DOMAIN Files
    THEN [error |-> <<"File not found: ", file_path>>]
    ELSE IF Files[file_path].kind = "dir"
         THEN [error |-> <<"[Errno 21] Is a directory: ", file_path>>]
         ELSE IF Files[file_path].kind = "binary"
              THEN [error |-> <<"'utf-8' codec can't decode byte 0xff">>]
              ELSE LET content_read == Files[file_path].content
                   IN  [file_path |-> file_path,
                        content |-> content_read,
                        size |-> Len(content_read),
                        lines |-> Cardinality({i \in 1 .. Len(content_read) :
                                                  content_read[i] = "\n"}) + 1]

\* file_reader_tool(file_path)
file_reader_tool ==
    /\ Called("file_reader_tool")
    /\ ToolReturn(file_reader(Val(toolcall).args[1]))

\* json.loads on a text given as its sequence of lexemes: the punctuation,
\* the string "a", the bare word a, the number 1 and the constant NaN.
\* A decoding step gives the value and the index after it, or raises
\* JSONDecodeError with a message.
Decoded(value, end) == [raise |-> None, value |-> Some(value), end |-> end]
JSONDecodeError(msg, pos) == [raise |-> Some(<<msg>>), value |-> None, end |-> pos]

\* the dict built from (key, value) pairs: the last value of a key stands
RECURSIVE dict(_)
dict(pairs) ==
    IF pairs = <<>> THEN <<>>
    ELSE LET init == dict(SubSeq(pairs, 1, Len(pairs) - 1))
             last == pairs[Len(pairs)]
         IN  IF \E i \in 1 .. Len(init) : init[i][1] = last[1]
             THEN [i \in 1 .. Len(init) |-> IF init[i][1] = last[1] THEN last ELSE init[i]]
             ELSE Append(init, last)

RECURSIVE scan_once(_, _), JSONObject(_, _, _), JSONArray(_, _, _)
scan_once(s, idx) ==
    IF idx > Len(s) THEN JSONDecodeError("Expecting value", idx)
    ELSE IF s[idx] = "\"a\"" THEN Decoded([type |-> "str", value |-> "a"], idx + 1)
    ELSE IF s[idx] = "{"
         THEN IF idx + 1 <= Len(s) /\ s[idx + 1] = "}"
              THEN Decoded([type |-> "dict", value |-> <<>>], idx + 2)
              ELSE JSONObject(s, idx + 1, <<>>)
    ELSE IF s[idx] = "["
         THEN IF idx + 1 <= Len(s) /\ s[idx + 1] = "]"
              THEN Decoded([type |-> "list", value |-> <<>>], idx + 2)
              ELSE JSONArray(s, idx + 1, <<>>)
    ELSE IF s[idx] = "1" THEN Decoded([type |-> "int", value |-> 1], idx + 1)
    ELSE IF s[idx] = "NaN" THEN Decoded([type |-> "float", value |-> "nan"], idx + 1)
    ELSE JSONDecodeError("Expecting value", idx)

\* the members of an object from idx on, after the pairs read so far
JSONObject(s, idx, pairs) ==
    IF idx > Len(s) \/ s[idx] # "\"a\""
    THEN JSONDecodeError("Expecting property name enclosed in double quotes", idx)
    ELSE IF idx + 1 > Len(s) \/ s[idx + 1] # ":"
         THEN JSONDecodeError("Expecting ':' delimiter", idx + 1)
         ELSE LET v == scan_once(s, idx + 2)
              IN  IF v.raise # None THEN v
                  ELSE IF v.end <= Len(s) /\ s[v.end] = "}"
                       THEN Decoded([type |-> "dict",
                                     value |-> dict(Append(pairs, <<"a", Val(v.value)>>))],
                                    v.end + 1)
                       ELSE IF v.end > Len(s) \/ s[v.end] # ","
                            THEN JSONDecodeError("Expecting ',' delimiter", v.end)
                            ELSE JSONObject(s, v.end + 1, Append(pairs, <<"a", Val(v.value)>>))

\* the elements of an array from idx on, after the values read so far
JSONArray(s, idx, values) ==
    LET v == scan_once(s, idx)
    IN  IF v.raise # None THEN v
        ELSE IF v.end <= Len(s) /\ s[v.end] = "]"
             THEN Decoded([type |-> "list", value |-> Append(values, Val(v.value))], v.end + 1)
             ELSE IF v.end > Len(s) \/ s[v.end] # ","
                  THEN JSONDecodeError("Expecting ',' delimiter", v.end)
                  ELSE JSONArray(s, v.end + 1, Append(values, Val(v.value)))

\* json.loads(s): one value, and nothing after it
json_loads(s) ==
    LET v == scan_once(s, 1)
    IN  IF v.raise # None THEN v
        ELSE IF v.end <= Len(s) THEN JSONDecodeError("Extra data", v.end)
             ELSE v

\* the body of json_validator_tool
json_validator(json_string) ==
    LET parsed == json_loads(json_string)
    IN  IF parsed.raise = None
        THEN [valid |-> TRUE,
              parsed_data |-> Val(parsed.value),
              type |-> Val(parsed.value).type,
              message |-> <<"Valid JSON">>]
        ELSE [valid |-> FALSE,
              error |-> Val(parsed.raise) \o <<": line 1 column ", parsed.end>>,
              message |-> <<"Invalid JSON">>]

\* json_validator_tool(json_string)
json_validator_tool ==
    /\ Called("json_validator_tool")
    /\ ToolReturn(json_validator(Val(toolcall).args[1]))

\* str.split() without a separator: the maximal runs of characters that are
\* not whitespace, found by one pass over the text
Whitespace == {" ", "\n", "\t"}
RECURSIVE split_scan(_, _, _, _)
split_scan(text, i, word, words) ==
    IF i > Len(text)
    THEN IF word = <<>> THEN words ELSE Append(words, word)
    ELSE IF text[i] \in Whitespace
         THEN split_scan(text, i + 1, <<>>, IF word = <<>> THEN words ELSE Append(words, word))
         ELSE split_scan(text, i + 1, Append(word, text[i]), words)
split(text) == split_scan(text, 1, <<>>, <<>>)

\* str.split(sep): the pieces between the occurrences of sep, found from the
\* left, empty pieces included
RECURSIVE split_sep_scan(_, _, _, _, _)
split_sep_scan(text, sep, i, piece, pieces) ==
    IF i > Len(text) THEN Append(pieces, piece)
    ELSE IF i + Len(sep) - 1 <= Len(text) /\ SubSeq(text, i, i + Len(sep) - 1) = sep
         THEN split_sep_scan(text, sep, i + Len(sep), <<>>, Append(pieces, piece))
         ELSE split_sep_scan(text, sep, i + 1, Append(piece, text[i]), pieces)
split_sep(text, sep) == split_sep_scan(text, sep, 1, <<>>, <<>>)

\* str.strip(chars), and str.strip() for chars = Whitespace
strip(s, chars) ==
    LET keep == {i \in 1 .. Len(s) : s[i] \notin chars}
    IN  IF keep = {} THEN <<>>
        ELSE SubSeq(s, CHOOSE i \in keep : \A j \in keep : i <= j,
                       CHOOSE i \in keep : \A j \in keep : i >= j)

\* len([s for s in pieces if s.strip()])
count_nonblank(pieces) ==
    Cardinality({i \in 1 .. Len(pieces) : strip(pieces[i], Whitespace) # <<>>})

\* the characters of '.,!?;:"()[]{}'
Punctuation == {".", ",", "!", "?", ";", ":", "\"", "(", ")", "[", "]", "{", "}"}

\* the word as it would be cleaned without .lower()
clean_word_no_lower(word) == strip(word, Punctuation)

\* clean_word = word.lower().strip('.,!?;:"()[]{}')
clean_word(word) == strip(lower(word), Punctuation)

\* the word_count dict after the loop over the words: the entries in the
\* order in which their keys were first set
RECURSIVE word_count(_)
word_count(words) ==
    IF words = <<>> THEN <<>>
    ELSE LET counted == word_count(SubSeq(words, 1, Len(words) - 1))
             w == clean_word(words[Len(words)])
         IN  IF w # <<>> /\ Len(w) > 2
             THEN IF \E i \in 1 .. Len(counted) : counted[i].word = w
                  THEN [i \in 1 .. Len(counted) |->
                           IF counted[i].word = w
                           THEN [word |-> w, count |-> counted[i].count + 1]
                           ELSE counted[i]]
                  ELSE Append(counted, [word |-> w, count |-> 1])
             ELSE counted

\* sorted(items, key=count, reverse=True): by falling count, entries of equal
\* count in the order they had
RECURSIVE sorted(_)
sorted(items) ==
    IF items = <<>> THEN <<>>
    ELSE LET done == sorted(SubSeq(items, 1, Len(items) - 1))
             x == items[Len(items)]
             k == Cardinality({i \in 1 .. Len(done) : done[i].count >= x.count})
         IN  SubSeq(done, 1, k) \o <<x>> \o SubSeq(done, k + 1, Len(done))

\* get_most_common_words(words, top_n)
get_most_common_words(words, top_n) ==
    LET sorted_words == sorted(word_count(words))
    IN  SubSeq(sorted_words, 1, IF Len(sorted_words) < top_n THEN Len(sorted_words) ELSE top_n)

\* the body of text_analyzer_tool: the mappings it can return
text_analyzer(text) ==
    LET words == split(text)
        sentences == split_sep(text, <<".">>)
        paragraphs == split_sep(text, <<"\n", "\n">>)
        sentence_count == count_nonblank(sentences)
    IN  {[character_count |-> Len(text),
          word_count |-> Len(words),
          sentence_count |-> sentence_count,
          paragraph_count |-> count_nonblank(paragraphs),
          average_words_per_sentence |-> avg,
          most_common_words |-> get_most_common_words(words, 5)] :
            avg \in round(Frac(Len(words), IF sentence_count > 1 THEN sentence_count ELSE 1), 2)}

\* text_analyzer_tool(text)
text_analyzer_tool ==
    /\ Called("text_analyzer_tool")
    /\ \E r \in text_analyzer(Val(toolcall).args[1]) : ToolReturn(r)

\* ---------------------------------------------------------- specifications
\* The caller owns two list objects before any agent exists: an empty one and
\* one holding the calculator.
CallerLists == << <<>>, <<calculator>> >>

UserMessages == {<<"2+2?">>, <<"hi">>}
Brief == Some(<<"Be brief.">>)
SystemPrompts == {None, Some(<<>>), Brief}
WithOptions == [options |-> Some([temperature |-> 2]), tools |-> None]
WithTools == [options |-> None, tools |-> Some(<<"weather_tool">>)]
\* the (message, keyword arguments) pairs of the blocking calls
ChatInputs == {<< <<"2+2?">>, NoKwargs >>, << <<"hi">>, WithOptions >>}
AgentTypes ==
    {<<"m","a","t","h">>, <<"M","a","t","h">>, <<"M","A","T","H">>,
     <<"r","e","s","e","a","r","c","h">>, <<"C","o","d","e">>,
     <<"a","n","a","l","y","s","i","s">>, <<"C","R","E","A","T","I","V","E">>,
     <<"m","a","t","h","s">>, <<" ","m","a","t","h">>, <<"p","o","e","t">>, <<>>}

NoCallsYet ==
    /\ calls = <<>>
    /\ requests = <<>>
    /\ served = <<>>
    /\ created = None
    /\ listed = None
    /\ info = None

\* no agent has been constructed
Init ==
    /\ heap = CallerLists
    /\ agent = <<>>
    /\ NoCallsYet
    /\ toolcall = None

\* no agent has been constructed, and a caller is about to call a tool
\* function
InitTool(tool, inputs) ==
    /\ heap = CallerLists
    /\ agent = <<>>
    /\ NoCallsYet
    /\ \E args \in inputs : toolcall = Some([tool |-> tool, args |-> args, returned |-> None])

\* every agent has been constructed, without tools: the first with any system
\* prompt, the others with a non-empty one
InitAgents ==
    /\ \E sp \in SystemPrompts :
          agent = [a \in AgentIds |->
                      __init__(<<"TestAgent">>, None, None, IF a = 1 THEN sp ELSE Brief,
                               CallerLists \o [i \in 1 .. a - 1 |-> <<>>]).self]
    /\ heap = CallerLists \o [i \in AgentIds |-> <<>>]
    /\ NoCallsYet
    /\ toolcall = None

\* chat, async_chat and stream_chat calls on the constructed agents
Next ==
    \/ \E a \in AgentIds, in \in ChatInputs : chat(a, in[1], in[2])
    \/ \E a \in AgentIds, m \in UserMessages : async_chat(a, m, NoKwargs)
    \/ \E a \in AgentIds : stream_chat(a, <<"hi">>, NoKwargs)
    \/ \E c \in CallIds : Resume(c)
    \/ \E c \in CallIds : Return(PlainServer, c)
    \/ \E c \in CallIds : StreamNext(PlainServer, c)
    \/ \E c \in CallIds : StreamClose(c)

Spec == InitAgents /\ [][Next]_vars

\* chat calls on the first agent and async_chat calls on every agent (with
\* either message on the first, with one on the others), against a server
\* with its whole range of behaviour
NextChat ==
    \/ chat(1, <<"2+2?">>, NoKwargs)
    \/ \E m \in UserMessages : async_chat(1, m, NoKwargs)
    \/ \E a \in AgentIds \ {1} : async_chat(a, <<"hi">>, NoKwargs)
    \/ \E c \in CallIds : Resume(c)
    \/ \E c \in CallIds : Return(FullServer, c)

SpecChat == InitAgents /\ [][NextChat]_vars

\* streaming and blocking calls on the first agent
NextStream ==
    \/ stream_chat(1, <<"hi">>, NoKwargs)
    \/ \E m \in UserMessages : chat(1, m, NoKwargs)
    \/ \E c \in CallIds : Resume(c)
    \/ \E c \in CallIds : Return(QuietServer, c)
    \/ \E c \in CallIds : StreamNext(StreamServer, c)
    \/ \E c \in CallIds : StreamClose(c)

SpecStream == InitAgents /\ [][NextStream]_vars

\* add_tool on the first agent between and during its calls
NextTools ==
    \/ \E t \in ToolSet : add_tool(1, t)
    \/ \E kw \in {NoKwargs, WithTools} : chat(1, <<"hi">>, kw)
    \/ async_chat(1, <<"hi">>, NoKwargs)
    \/ stream_chat(1, <<"hi">>, NoKwargs)
    \/ \E c \in CallIds : Resume(c)
    \/ \E c \in CallIds : Return(QuietServer, c)
    \/ \E c \in CallIds : StreamNext(QuietServer, c)

SpecTools == InitAgents /\ [][NextTools]_vars

\* the factory and the constructor
NextFactory ==
    \/ \E ty \in AgentTypes, m \in {None, Some(<<>>), Some(<<"codellama">>)} :
          create_agent(ty, m)
    \/ \E m \in {None, Some(<<"codellama">>)}, t \in {None, Some(1), Some(2)} :
          NewAgent(m, t, None)

SpecFactory == Init /\ [][NextFactory]_vars

\* the model queries
NextQuery ==
    \/ \E m \in {None, Some(<<"codellama">>)} : NewAgent(m, None, None)
    \/ \E a \in AgentIds : list_available_models(a)
    \/ \E a \in AgentIds : get_model_info(a)

SpecQuery == Init /\ [][NextQuery]_vars

\* agents constructed from the caller's lists, and add_tool on any of them
NextShare ==
    \/ \E m \in {None, Some(<<"codellama">>)}, t \in {None, Some(1), Some(2)} :
          NewAgent(m, t, None)
    \/ \E a \in AgentIds, t \in ToolSet : add_tool(a, t)

SpecShare == Init /\ [][NextShare]_vars

\* the values, unit names and unit types handed to unit_converter_tool: whole
\* and fractional values, a negative one and one with seven decimals
\* (0.0078125); units of each type, one in another case, and unknown ones
Values == {Frac(0, 1), Frac(1, 1), Frac(100, 1), Frac(0 - 40, 1), Frac(5, 2), Frac(1, 128)}
UnitNames ==
    {meter, centimeter, inch, gram, pound, celsius, fahrenheit, kelvin,
     <<"K","e","l","v","i","n">>, <<"M","e","t","e","r">>,
     <<"r","a","n","k","i","n","e">>}
UnitTypes == {"length", "weight", "temperature", "volume"}

\* the unit converter on every input
InitUnits == InitTool("unit_converter_tool", Values \X UnitNames \X UnitNames \X UnitTypes)
NextUnits == unit_converter_tool

SpecUnits == InitUnits /\ [][NextUnits]_vars

\* the paths handed to file_reader_tool: the entries of the file system, a
\* path that does not exist and the empty path
Paths == DOMAIN Files \cup {"missing.txt", ""}

\* the texts handed to json_validator_tool: every sequence of n lexemes, for
\* n up to MaxJson
Lexemes == {"{", "}", "[", "]", ":", ",", "\"a\"", "a", "1", "NaN"}
JsonStrings(n) == [1 .. n -> Lexemes]

\* every tool on well-formed and malformed input
InitMalformed ==
    \/ InitTool("file_reader_tool", {<<p>> : p \in Paths})
    \/ \E n \in 0 .. MaxJson :
          InitTool("json_validator_tool", {<<s>> : s \in JsonStrings(n)})
    \/ InitTool("unit_converter_tool", Values \X UnitNames \X UnitNames \X UnitTypes)

NextMalformed ==
    \/ file_reader_tool
    \/ json_validator_tool
    \/ unit_converter_tool

SpecMalformed == InitMalformed /\ [][NextMalformed]_vars

\* the pieces the texts handed to text_analyzer_tool are made of
Phrases ==
    {<<"H", "e", "l", "l", "o", " ", "w", "o", "r", "l", "d", ".">>,
     <<"H", "e", "l", "l", "o", " ", "a", "g", "a", "i", "n", ".">>,
     <<"o", "n", "e", " ", "t", "w", "o", " ", "t", "h", "r", "e", "e">>,
     <<"f", "o", "u", "r", ",", " ", "f", "i", "v", "e", ";", " ", "S", "I", "X", "!">>,
     <<"i", "t", " ", "i", "s", ".">>,
     <<" ", ".", " ", ".">>,
     <<"(", "o", "n", "e", ")", " ", "t", "w", "o", ".", "t", "h", "r", "e", "e">>,
     <<"s", "e", "v", "e", "n", "\n", "\n", "e", "i", "g", "h", "t">>}

\* ' '.join(phrases)
RECURSIVE join(_)
join(phrases) ==
    IF phrases = <<>> THEN <<>>
    ELSE IF Len(phrases) = 1 THEN phrases[1]
    ELSE phrases[1] \o <<" ">> \o join(Tail(phrases))

\* the texts: up to MaxPhrases phrases with a blank between them
Texts == {join(ps) : ps \in UNION {[1 .. n -> Phrases] : n \in 0 .. MaxPhrases}}

\* the text analyzer on every text
InitText == InitTool("text_analyzer_tool", {<<t>> : t \in Texts})
NextText == text_analyzer_tool

SpecText == InitText /\ [][NextText]_vars

\* ------------------------------------------------------------------ claims
NumRequests(c) == IF c \in DOMAIN requests THEN Len(requests[c]) ELSE 0
Done(c) == calls[c].pc = "done"
Blocking(c) == calls[c].kind \in {"chat", "async_chat"}
Streaming(c) == calls[c].kind = "stream_chat"

\* C1: a call never issues more than one request, and one whose body has
\* started has issued exactly one; the request's messages end with the user
\* message of this call, hold at most one message before it, and that one is
\* the system message carrying the agent's system prompt, present whenever
\* the prompt is a non-empty text and never when the agent has none.
C1_OneRequestSystemThenUser ==
    \A c \in DOMAIN calls :
        /\ NumRequests(c) = (IF calls[c].pc = "created" THEN 0 ELSE 1)
        /\ NumRequests(c) = 1 =>
              LET ms == requests[c][1].messages
                  sp == agent[calls[c].agent].system_prompt
              IN  /\ Len(ms) \in {1, 2}
                  /\ ms[Len(ms)] = [role |-> "user", content |-> calls[c].message]
                  /\ Len(ms) = 2 =>
                        (sp # None /\ ms[1] = [role |-> "system", content |-> Val(sp)])
                  /\ (sp # None /\ Val(sp) # <<>>) => Len(ms) = 2

\* two finished calls of different kinds with different messages on an agent
\* that has a system prompt, the second one streaming
C1_Witness ==
    /\ Len(calls) = 2
    /\ Done(1) /\ Done(2)
    /\ calls[1].agent = calls[2].agent
    /\ agent[calls[1].agent].system_prompt = Brief
    /\ calls[1].kind = "chat" /\ calls[2].kind = "stream_chat"
    /\ calls[1].message # calls[2].message
    /\ calls[1].result = Some(<<"Be brief.", "2+2?">>)
    /\ Len(requests[2][1].messages) = 2

\* C2: a chat or async_chat call lets nothing escape to its caller and issues
\* no second request; when the transport fails the call returns "Error: "
\* followed by the fault's description, and when the response lacks the
\* message or the content field it returns a text that starts with "Error: "
\* and goes on.
C2_FaultsBecomeErrorText ==
    \A c \in DOMAIN calls :
        Blocking(c) =>
            /\ calls[c].raised = None
            /\ NumRequests(c) <= 1
            /\ Done(c) =>
                  /\ calls[c].result # None
                  /\ served[c].raise # None =>
                        Val(calls[c].result) = <<"Error: ">> \o Val(served[c].raise)
                  /\ (/\ served[c].raise = None
                      /\ \/ "message" \notin DOMAIN Val(served[c].response)
                         \/ "content" \notin DOMAIN Val(served[c].response).message) =>
                        /\ Len(Val(calls[c].result)) > 1
                        /\ Head(Val(calls[c].result)) = "Error: "

\* an async_chat call that ended in a timeout and a chat call whose response
\* had no content field
C2_Witness ==
    /\ Len(calls) = 2
    /\ Done(1) /\ Done(2)
    /\ calls[1].kind = "async_chat" /\ calls[2].kind = "chat"
    /\ served[1].raise = Some(<<"ReadTimeout">>)
    /\ calls[1].result = Some(<<"Error: ", "ReadTimeout">>)
    /\ served[2].response = Some([message |-> [role |-> "assistant"]])
    /\ calls[2].result = Some(<<"Error: ", "'content'">>)

\* C3: every request of a chat call carries the temperature, the max output
\* tokens and the timeout of the agent's configuration, and a chat call whose
\* answer takes longer than the configured timeout returns an error text.
C3_RequestCarriesConfig ==
    \A c \in DOMAIN calls :
        (calls[c].kind = "chat" /\ NumRequests(c) = 1) =>
            LET cfg == agent[calls[c].agent].config
                o == requests[c][1].kwargs.options
            IN  /\ o # None
                /\ {"temperature", "max_tokens", "timeout"} \subseteq DOMAIN Val(o)
                /\ Val(o).temperature = cfg.temperature
                /\ Val(o).max_tokens = cfg.max_tokens
                /\ Val(o).timeout = cfg.timeout
                /\ (Done(c) /\ served[c].latency > cfg.timeout) =>
                      Head(Val(calls[c].result)) = "Error: "

\* C4: a stream the server completes has yielded the content of each chunk
\* the server sent, one fragment per chunk and in the order sent, and the
\* fragments put together are the text a finished chat call got for the same
\* model and messages; until then the fragments yielded are those of the
\* chunks sent so far.
C4_StreamYieldsServerFragments ==
    \A c \in DOMAIN calls :
        (/\ Streaming(c)
         /\ c \in DOMAIN served
         /\ \A i \in 1 .. Len(served[c]) : served[c][i].kind # "raise"
         /\ \A i \in 1 .. Len(served[c]) :
               served[c][i].kind = "chunk" => "message" \in DOMAIN Val(served[c][i].chunk)) =>
            LET n == Cardinality({i \in 1 .. Len(served[c]) : served[c][i].kind = "chunk"})
            IN  /\ Len(calls[c].yielded) = n
                /\ \A i \in 1 .. n :
                      calls[c].yielded[i] = Val(served[c][i].chunk).message.content
                /\ (n < Len(served[c])) <=> Done(c)
                /\ Done(c) =>
                      \A d \in DOMAIN calls :
                          (calls[d].kind = "chat" /\ Done(d) /\ served[d].raise = None
                           /\ requests[d][1].model = requests[c][1].model
                           /\ requests[d][1].messages = requests[c][1].messages) =>
                              Val(calls[d].result) = Flatten(calls[c].yielded)

\* a completed stream of two non-empty fragments next to a finished chat call
\* with the same message
C4_Witness ==
    /\ Len(calls) = 2
    /\ Done(1) /\ Done(2)
    /\ calls[1].kind = "stream_chat" /\ calls[2].kind = "chat"
    /\ calls[1].message = calls[2].message
    /\ calls[1].yielded = << <<"Be brief.">>, <<"hi">> >>
    /\ served[1][3].kind = "stop"
    /\ calls[2].result = Some(<<"Be brief.", "hi">>)

\* C5: when the transport breaks after the server sent k chunks, the consumer
\* has got the k fragments and then one fragment made of "Error: " and the
\* fault's description, and nothing after it; the generator raises nothing
\* and the call has issued one request only.
C5_BrokenStreamEndsWithOneError ==
    \A c \in DOMAIN calls :
        (/\ Streaming(c)
         /\ c \in DOMAIN served
         /\ \E i \in 1 .. Len(served[c]) : served[c][i].kind = "raise") =>
            LET k == Len(served[c]) - 1
            IN  /\ served[c][k + 1].kind = "raise"
                /\ Len(calls[c].yielded) = k + 1
                /\ \A i \in 1 .. k :
                      calls[c].yielded[i] = Val(served[c][i].chunk).message.content
                /\ calls[c].yielded[k + 1] = <<"Error: ">> \o Val(served[c][k + 1].fault)
                /\ calls[c].raised = None
                /\ calls[c].pc \in {"errored", "done"}
                /\ NumRequests(c) = 1

\* a stream that broke after one fragment and has ended
C5_Witness ==
    /\ Len(calls) >= 1
    /\ calls[1].kind = "stream_chat" /\ Done(1)
    /\ Len(served[1]) = 2
    /\ served[1][2].kind = "raise"
    /\ calls[1].yielded = << <<"Be brief.">>, <<"Error: ", "ConnectionError">> >>

\* C6: list_available_models raises nothing; when the server reports N
\* entries that all have a name it returns those N names in the server's
\* order, and when the call fails, the response has no models field or an
\* entry has no name, it returns the empty sequence.
C6_ListInServerOrderOrEmpty ==
    listed # None =>
        LET l == Val(listed)
            wellFormed ==
                /\ l.outcome.raise = None
                /\ "models" \in DOMAIN Val(l.outcome.response)
                /\ \A i \in 1 .. Len(Val(l.outcome.response).models) :
                      "name" \in DOMAIN Val(l.outcome.response).models[i]
        IN  /\ l.raised = None
            /\ wellFormed =>
                  /\ Len(l.result) = Len(Val(l.outcome.response).models)
                  /\ \A i \in 1 .. Len(l.result) :
                        l.result[i] = Val(l.outcome.response).models[i].name
            /\ ~wellFormed => l.result = <<>>

\* a server that reports two models, returned in its order
C6_Witness ==
    /\ listed # None
    /\ Val(listed).outcome.response =
          Some([models |-> <<[name |-> <<"codellama">>], [name |-> <<"llama3.2">>]>>])
    /\ Val(listed).result = << <<"codellama">>, <<"llama3.2">> >>

\* C7: get_model_info raises nothing; it returns the mapping the server sent
\* when the query succeeds, and otherwise a mapping whose only key is error,
\* holding the fault's description.
C7_InfoOrErrorOnly ==
    info # None =>
        LET i == Val(info)
        IN  /\ i.raised = None
            /\ i.outcome.raise = None => i.result = Val(i.outcome.response)
            /\ i.outcome.raise # None =>
                  /\ DOMAIN i.result = {"error"}
                  /\ i.result.error = Val(i.outcome.raise)

\* a query for a model the server does not have
C7_Witness ==
    /\ info # None
    /\ Val(info).outcome.raise = Some(<<"model not found">>)
    /\ Val(info).result = [error |-> <<"model not found">>]

\* the closed set of preset names, each with the class it stands for and the
\* tools that class starts with
PresetTable ==
    {[key |-> <<"m","a","t","h">>, name |-> <<"MathAgent">>, tools |-> <<"calculator">>],
     [key |-> <<"r","e","s","e","a","r","c","h">>, name |-> <<"ResearchAgent">>, tools |-> <<>>],
     [key |-> <<"c","o","d","e">>, name |-> <<"CodeAgent">>, tools |-> <<>>],
     [key |-> <<"a","n","a","l","y","s","i","s">>, name |-> <<"AnalysisAgent">>,
      tools |-> <<"calculator">>],
     [key |-> <<"c","r","e","a","t","i","v","e">>, name |-> <<"CreativeAgent">>, tools |-> <<>>]}

\* two strings are the same but for the case of their letters
SameButForCase(x, y) ==
    /\ Len(x) = Len(y)
    /\ \A i \in 1 .. Len(x) :
          \/ x[i] = y[i]
          \/ \E k \in 1 .. 26 : {x[i], y[i]} = {Upper[k], Lower[k]}

\* C8: create_agent raises ValueError exactly when the requested name is,
\* but for case, none of math, research, code, analysis, creative; otherwise
\* it raises nothing and the agent it returns is the one of that preset, by
\* its name and its tools.
C8_ValueErrorIffUnknownPreset ==
    created # None =>
        LET cr == Val(created)
            match == {p \in PresetTable : SameButForCase(cr.agent_type, p.key)}
        IN  /\ (cr.raised = Some(<<"ValueError">>)) <=> (match = {})
            /\ match = {} => cr.agent = None
            /\ match # {} =>
                  /\ cr.raised = None
                  /\ cr.agent # None
                  /\ \A p \in match :
                        /\ agent[Val(cr.agent)].name = p.name
                        /\ heap[agent[Val(cr.agent)].tools] = p.tools

\* "CREATIVE" gave a CreativeAgent
C8_Witness ==
    /\ created # None
    /\ Val(created).agent_type = <<"C","R","E","A","T","I","V","E">>
    /\ Val(created).raised = None
    /\ agent[Val(Val(created).agent)].name = <<"CreativeAgent">>
    /\ agent[Val(Val(created).agent)].system_prompt = Some(<<"creative-prompt">>)

\* the tools a request carries
RequestTools(req) == IF req.kwargs.tools = None THEN <<>> ELSE Val(req.kwargs.tools)

\* the calls that issue their request in the step
Issuing == {c \in DOMAIN requests' : c \notin DOMAIN requests}

\* a step that changes a tool list appends one tool to it, and leaves the
\* wrapped agent on that list
AddToolAppends ==
    \A a \in DOMAIN agent :
        heap'[agent[a].tools] # heap[agent[a].tools] =>
            /\ \E t \in ToolSet : heap'[agent[a].tools] = Append(heap[agent[a].tools], t)
            /\ agent'[a].tools = agent[a].tools
            /\ agent'[a].strand_agent.tools = agent[a].tools

\* a step that changes a tool list changes no call, request or response
AddToolLeavesCallsAlone ==
    heap' # heap => (calls' = calls /\ requests' = requests /\ served' = served)

\* C9 as stated: add_tool appends, leaves the calls in flight alone, and the
\* request of a call that starts afterwards carries every tool of the
\* agent's list.
C9_AddToolReachesNextCall ==
    [][/\ AddToolAppends
       /\ AddToolLeavesCallsAlone
       /\ \A c \in Issuing :
             \A i \in 1 .. Len(heap'[agent'[calls'[c].agent].tools]) :
                 \E j \in 1 .. Len(RequestTools(requests'[c][1])) :
                     RequestTools(requests'[c][1])[j] = heap'[agent'[calls'[c].agent].tools][i]]_vars

\* C9 amended: add_tool appends the tool to the end of the agent's tool list
\* and rebuilds the wrapped agent on that list; it changes no call, request
\* or response, and the keyword arguments of a request are those of its call
\* alone, so that the tool list reaches no request, of a call in flight or of
\* a later one.
C9_AddToolAppendsAndReachesNoCall ==
    [][/\ AddToolAppends
       /\ AddToolLeavesCallsAlone
       /\ \A c \in Issuing : requests'[c][1].kwargs = calls'[c].kwargs]_vars

\* the agent has got two tools, one call of it is in flight and a later one
\* is over; neither request carries a tool
C9_Witness ==
    /\ heap[agent[1].tools] = <<"calculator", "weather_tool">>
    /\ Len(calls) = 2
    /\ calls[1].kind = "async_chat" /\ calls[1].pc = "waiting"
    /\ calls[2].kind = "chat" /\ Done(2)
    /\ RequestTools(requests[1][1]) = <<>>
    /\ RequestTools(requests[2][1]) = <<>>

\* what call c holds: its frame, its requests and the responses to them
Owned(c) ==
    <<IF c \in DOMAIN calls THEN {calls[c]} ELSE {},
      IF c \in DOMAIN requests THEN {requests[c]} ELSE {},
      IF c \in DOMAIN served THEN {served[c]} ELSE {}>>

\* C10: a step touches the frame, request and response of one call at most;
\* the messages an async_chat call sends are the ones it built from its own
\* agent's system prompt and its own message, and the text it returns is the
\* server's answer to that request, or the error of its own exchange.
C10_AsyncCallsShareNothing ==
    [][/\ \A c, d \in CallIds : (Owned(c)' # Owned(c) /\ Owned(d)' # Owned(d)) => c = d
       /\ \A c \in DOMAIN calls' :
             (calls'[c].kind = "async_chat" /\ calls'[c].pc # "created") =>
                 LET sp == agent'[calls'[c].agent].system_prompt
                     own == (IF sp # None THEN Val(sp) ELSE <<>>) \o calls'[c].message
                 IN  /\ calls'[c].messages = requests'[c][1].messages
                     /\ Flatten([i \in 1 .. Len(calls'[c].messages) |->
                                    calls'[c].messages[i].content]) = own
                     /\ (calls'[c].pc = "done" /\ served'[c].raise # None) =>
                           calls'[c].result = Some(<<"Error: ">> \o Val(served'[c].raise))
                     /\ (/\ calls'[c].pc = "done"
                         /\ served'[c].raise = None
                         /\ "message" \in DOMAIN Val(served'[c].response)
                         /\ "content" \in DOMAIN Val(served'[c].response).message) =>
                           calls'[c].result = Some(own)]_vars

\* two async_chat calls of one agent with different messages: the second has
\* returned its own answer while the first still waits
C10_Witness ==
    /\ Len(calls) = 2
    /\ calls[1].kind = "async_chat" /\ calls[2].kind = "async_chat"
    /\ calls[1].agent = calls[2].agent
    /\ calls[1].message = <<"2+2?">> /\ calls[2].message = <<"hi">>
    /\ calls[1].pc = "waiting"
    /\ Done(2)
    /\ calls[2].result = Some(<<"Be brief.", "hi">>)

\* C11: a step that constructs no agent (an add_tool call) changes the tool
\* list of one agent at most: when the list of an agent changes, the list of
\* every other agent is what it was, also when both agents were constructed
\* from the same list of the caller.
C11_AddToolLeavesOtherAgentsAlone ==
    [][DOMAIN agent' = DOMAIN agent =>
          \A a, b \in DOMAIN agent :
              (a # b /\ heap'[agent[a].tools] # heap[agent[a].tools]) =>
                  heap'[agent[b].tools] = heap[agent[b].tools]]_vars

\* the units of a type: the keys of its conversion table, and for
\* temperature the three scales in any case
KnownUnit(unit, unit_type) ==
    IF unit_type = "temperature"
    THEN lower(unit) \in {celsius, fahrenheit, kelvin}
    ELSE unit \in DOMAIN conversions[unit_type]

\* C12: a unit_converter_tool call for length, weight or temperature whose
\* source or target unit is not a unit of that type returns a mapping with an
\* error field and no converted_value.
C12_UnknownUnitGivesError ==
    \A c \in toolcall :
        (/\ c.tool = "unit_converter_tool"
         /\ c.returned # None
         /\ c.args[4] \in {"length", "weight", "temperature"}
         /\ ~ (KnownUnit(c.args[2], c.args[4]) /\ KnownUnit(c.args[3], c.args[4]))) =>
            /\ "error" \in DOMAIN Val(c.returned)
            /\ "converted_value" \notin DOMAIN Val(c.returned)

\* the texts of at most n lexemes that are one JSON value: a number, a
\* string, an array of JSON values or an object of members "a" : value
RECURSIVE JsonValues(_), JsonElements(_), JsonMembers(_)
JsonValues(n) ==
    IF n < 1 THEN {}
    ELSE {<<"1">>, <<"\"a\"">>}
         \cup {t \in {<<"[", "]">>, <<"{", "}">>} : n >= 2}
         \cup {<<"[">> \o e \o <<"]">> : e \in JsonElements(n - 2)}
         \cup {<<"{">> \o m \o <<"}">> : m \in JsonMembers(n - 2)}
JsonElements(n) ==
    IF n < 1 THEN {}
    ELSE JsonValues(n)
         \cup {t \in {v \o <<",">> \o e : v \in JsonValues(n - 2), e \in JsonElements(n - 2)} :
                  Len(t) <= n}
JsonMembers(n) ==
    IF n < 3 THEN {}
    ELSE {<<"\"a\"", ":">> \o v : v \in JsonValues(n - 2)}
         \cup {t \in {m \o <<",">> \o k : m \in JsonMembers(n - 4), k \in JsonMembers(n - 4)} :
                  Len(t) <= n}
JsonTexts == JsonValues(MaxJson)

\* the text of a parsed value
RECURSIVE dumps(_), dumps_items(_, _)
dumps(v) ==
    IF v.type = "str" THEN <<"\"a\"">>
    ELSE IF v.type = "int" THEN <<"1">>
    ELSE IF v.type = "float" THEN <<"NaN">>
    ELSE IF v.type = "list" THEN <<"[">> \o dumps_items(v.value, FALSE) \o <<"]">>
    ELSE <<"{">> \o dumps_items(v.value, TRUE) \o <<"}">>
dumps_items(items, keyed) ==
    IF items = <<>> THEN <<>>
    ELSE (IF keyed THEN <<"\"a\"", ":">> \o dumps(items[1][2]) ELSE dumps(items[1]))
         \o (IF Len(items) > 1 THEN <<",">> ELSE <<>>)
         \o dumps_items(Tail(items), keyed)

\* the mapping has an error field that is not empty
HasError(result) == "error" \in DOMAIN result /\ result.error # <<>>

\* C13: a tool call that has returned, returned a mapping; file_reader_tool
\* on a path that does not exist, json_validator_tool on a text that is not
\* JSON, and unit_converter_tool on an unknown unit type or on a unit that is
\* not one of its type, return a mapping with a non-empty error field;
\* json_validator_tool returns valid = true with the data of the text (its
\* text is the input again; the texts here are too short to repeat a key)
\* when the text is JSON, and valid = false otherwise.
C13_MalformedInputGivesErrorField ==
    \A c \in toolcall :
        c.returned # None =>
            LET result == Val(c.returned)
            IN  /\ (c.tool = "file_reader_tool" /\ c.args[1] \notin DOMAIN Files) =>
                      HasError(result)
                /\ c.tool = "json_validator_tool" =>
                      /\ "valid" \in DOMAIN result
                      /\ result.valid = (c.args[1] \in JsonTexts)
                      /\ result.valid => dumps(result.parsed_data) = c.args[1]
                      /\ ~ result.valid => HasError(result)
                /\ (/\ c.tool = "unit_converter_tool"
                    /\ \/ c.args[4] \notin {"length", "weight", "temperature"}
                       \/ ~ KnownUnit(c.args[2], c.args[4])
                       \/ ~ KnownUnit(c.args[3], c.args[4])) =>
                      HasError(result)

Conversions ==
    {c \in toolcall : /\ c.tool = "unit_converter_tool"
                      /\ c.returned # None
                      /\ "converted_value" \in DOMAIN Val(c.returned)}

\* the decimal w.m of six places, not negative
Decimal(w, m) == [neg |-> FALSE, whole |-> w, places |-> m]

\* the standard conversion between the three scales, pair by pair
StandardTemperature(v, from_scale, to_scale) ==
    IF from_scale = to_scale THEN v
    ELSE IF from_scale = celsius /\ to_scale = fahrenheit
         THEN Add(Div(Mul(v, Frac(9, 1)), Frac(5, 1)), Frac(32, 1))
    ELSE IF from_scale = celsius /\ to_scale = kelvin
         THEN Add(v, Frac(27315, 100))
    ELSE IF from_scale = fahrenheit /\ to_scale = celsius
         THEN Div(Mul(Sub(v, Frac(32, 1)), Frac(5, 1)), Frac(9, 1))
    ELSE IF from_scale = fahrenheit /\ to_scale = kelvin
         THEN Add(Div(Mul(Sub(v, Frac(32, 1)), Frac(5, 1)), Frac(9, 1)), Frac(27315, 100))
    ELSE IF from_scale = kelvin /\ to_scale = celsius
         THEN Sub(v, Frac(27315, 100))
    ELSE Add(Div(Mul(Sub(v, Frac(27315, 100)), Frac(9, 1)), Frac(5, 1)), Frac(32, 1))

\* what the conversion of call c comes to before rounding: the value times
\* the ratio of the two factors, or the standard temperature conversion
Expected(c) ==
    IF c.args[4] = "temperature"
    THEN StandardTemperature(c.args[1], lower(c.args[2]), lower(c.args[3]))
    ELSE Mul(c.args[1], Div(conversions[c.args[4]][c.args[2]],
                            conversions[c.args[4]][c.args[3]]))

\* call c converts between units of its type
KnownConversion(c) ==
    /\ c.args[4] \in {"length", "weight", "temperature"}
    /\ KnownUnit(c.args[2], c.args[4])
    /\ KnownUnit(c.args[3], c.args[4])

\* the converted value is the expected one rounded to six decimals, and the
\* two examples come out as 32.0 and 1.0
RoundedConversion ==
    \A c \in Conversions :
        LET got == Val(c.returned).converted_value
        IN  /\ KnownConversion(c) => got \in round(Expected(c), 6)
            /\ c.args = <<Frac(0, 1), celsius, fahrenheit, "temperature">> =>
                  got = Decimal(32, 0)
            /\ c.args = <<Frac(100, 1), centimeter, meter, "length">> =>
                  got = Decimal(1, 0)

\* the number x has at most six decimals
SixDecimals(x) == 1000000 % x.d = 0

\* C15 as stated: the converted value is value * factor(from_unit) /
\* factor(to_unit), or the standard temperature conversion, rounded to six
\* decimals; 0 Celsius is 32.0 Fahrenheit and 100 centimeters are 1.0 meter;
\* and a conversion of a value to its own unit returns the value itself.
C15_ConversionAndIdentity ==
    /\ RoundedConversion
    /\ \A c \in Conversions :
          (KnownConversion(c) /\ c.args[2] = c.args[3]) =>
              /\ SixDecimals(c.args[1])
              /\ round(c.args[1], 6) = {Val(c.returned).converted_value}

\* C15: the converted value is value * factor(from_unit) / factor(to_unit),
\* or the standard temperature conversion, rounded to six decimals; 0 Celsius
\* is 32.0 Fahrenheit and 100 centimeters are 1.0 meter; and a conversion of
\* a value to its own unit returns the value rounded to six decimals, which
\* is the value itself when it has no more than six.
C15_ConversionRoundedToSixDecimals ==
    /\ RoundedConversion
    /\ \A c \in Conversions :
          (KnownConversion(c) /\ c.args[2] = c.args[3]) =>
              /\ Val(c.returned).converted_value \in round(c.args[1], 6)
              /\ SixDecimals(c.args[1]) => Cardinality(round(c.args[1], 6)) = 1

\* 0.0078125 meter has been converted to meter and came out as 0.007812
C15_Witness ==
    \E c \in Conversions :
        /\ c.args = <<Frac(1, 128), meter, meter, "length">>
        /\ Val(c.returned).converted_value = Decimal(0, 7812)

\* the positions where a whitespace-separated token of the text starts, and
\* the token that starts at such a position
TokenStarts(text) ==
    {i \in 1 .. Len(text) :
        text[i] \notin Whitespace /\ (i = 1 \/ text[i - 1] \in Whitespace)}
TokenAt(text, i) ==
    SubSeq(text, i, CHOOSE e \in i .. Len(text) :
                        /\ \A k \in i .. e : text[k] \notin Whitespace
                        /\ (e = Len(text) \/ text[e + 1] \in Whitespace))

\* a token in lower case with the punctuation at its two ends taken off
Cleaned(token) == strip(lower(token), Punctuation)

\* the cleaned tokens of more than two characters, how often each occurs and
\* where it occurs first
CommonWords(text) ==
    {w \in {Cleaned(TokenAt(text, i)) : i \in TokenStarts(text)} : Len(w) > 2}
Occurrences(text, w) ==
    Cardinality({i \in TokenStarts(text) : Cleaned(TokenAt(text, i)) = w})
FirstAt(text, w) ==
    CHOOSE i \in TokenStarts(text) :
        /\ Cleaned(TokenAt(text, i)) = w
        /\ \A j \in TokenStarts(text) : Cleaned(TokenAt(text, j)) = w => i <= j

\* the segments between '.' characters (and the ends of the text) that hold
\* a character that is not whitespace, by the positions that bound them
Sentences(text) ==
    LET bounds == {0, Len(text) + 1} \cup {i \in 1 .. Len(text) : text[i] = "."}
    IN  {seg \in bounds \X bounds :
            /\ seg[1] < seg[2]
            /\ \A b \in bounds : ~ (seg[1] < b /\ b < seg[2])
            /\ \E k \in seg[1] + 1 .. seg[2] - 1 : text[k] \notin Whitespace}

\* "Hello world. Hello again."
HelloText ==
    <<"H", "e", "l", "l", "o", " ", "w", "o", "r", "l", "d", ".", " ",
      "H", "e", "l", "l", "o", " ", "a", "g", "a", "i", "n", ".">>

\* C16: text_analyzer_tool reports as word_count the number of
\* whitespace-separated tokens and as sentence_count the number of non-blank
\* segments between '.' characters; most_common_words has at most 5 entries,
\* as many as there are words to report up to 5, with counts that never
\* rise; each entry is a different lower-cased token without the punctuation
\* at its ends, longer than 2 characters, with the number of its occurrences;
\* of two entries with the same count the one that occurs first in the text
\* comes first, and a word left out is no more frequent than any entry, nor
\* as frequent as and earlier than one.  For "Hello world. Hello again." this
\* gives 4 words, 2 sentences and "hello" first with count 2.
C16_TextStatistics ==
    \A c \in toolcall :
        (c.tool = "text_analyzer_tool" /\ c.returned # None) =>
            LET text == c.args[1]
                r == Val(c.returned)
                mc == r.most_common_words
                reported == {mc[i].word : i \in 1 .. Len(mc)}
            IN  /\ r.word_count = Cardinality(TokenStarts(text))
                /\ r.sentence_count = Cardinality(Sentences(text))
                /\ Len(mc) <= 5
                /\ Len(mc) = (IF Cardinality(CommonWords(text)) < 5
                              THEN Cardinality(CommonWords(text)) ELSE 5)
                /\ \A i \in 1 .. Len(mc) :
                      /\ mc[i].word \in CommonWords(text)
                      /\ mc[i].count = Occurrences(text, mc[i].word)
                /\ \A i, j \in 1 .. Len(mc) :
                      i < j => /\ mc[i].word # mc[j].word
                               /\ mc[i].count >= mc[j].count
                               /\ mc[i].count = mc[j].count =>
                                     FirstAt(text, mc[i].word) < FirstAt(text, mc[j].word)
                /\ \A w \in CommonWords(text) \ reported : \A i \in 1 .. Len(mc) :
                      \/ mc[i].count > Occurrences(text, w)
                      \/ /\ mc[i].count = Occurrences(text, w)
                         /\ FirstAt(text, mc[i].word) < FirstAt(text, w)
                /\ text = HelloText =>
                      /\ r.word_count = 4
                      /\ r.sentence_count = 2
                      /\ mc[1] = [word |-> <<"h", "e", "l", "l", "o">>, count |-> 2]

\* "Hello world. Hello again." has been analyzed: "hello" with count 2, then
\* "world" and "again" with count 1 in the order of the text
C16_Witness ==
    \E c \in toolcall :
        /\ c.tool = "text_analyzer_tool"
        /\ c.args[1] = HelloText
        /\ c.returned # None
        /\ Val(c.returned).word_count = 4
        /\ Val(c.returned).most_common_words =
              <<[word |-> <<"h", "e", "l", "l", "o">>, count |-> 2],
                [word |-> <<"w", "o", "r", "l", "d">>, count |-> 1],
                [word |-> <<"a", "g", "a", "i", "n">>, count |-> 1]>>
====
